---- MODULE Spec2Model ----
(***************************************************************************)
(* Game state of the hangman game in src/JogoDaForca/App.js (the file      *)
(* src/unnamed/part_000 holds the same logic with other texts).            *)
(*                                                                         *)
(* A character is a one-letter string; "E_acute" stands for the letter     *)
(* E with an acute accent (U+00C9) of the word PELE', which is a           *)
(* different character from "E".  A word is a sequence of characters.      *)
(*                                                                         *)
(* guessedLetters is a JavaScript array.  The code reads it only with      *)
(* includes() and filter() and grows it only by appending, so it is        *)
(* modelled as a bag (multiset): multiplicity is kept, so that a letter    *)
(* stored twice is a different state, and only the order of insertion,     *)
(* which decides nothing but the order of the displayed lists, is left     *)
(* out.                                                                    *)
(*                                                                         *)
(* React runs the component as follows.  An event handler (handleGuess,    *)
(* startNewGame) queues state updates; React commits them in one render;   *)
(* the effects whose dependencies changed run after that commit, and an    *)
(* effect that sets state causes one more render and one more run of the   *)
(* effect.  pc records where the component is in that cycle:               *)
(*   "mount"   first render committed (useState initial values), the       *)
(*             mount effects have not run yet;                             *)
(*   "effect"  a render is committed and the status effect is pending;     *)
(*   "idle"    all effects have run, the component waits for an event.     *)
(* React flushes the pending effects of a render before it handles the     *)
(* next event, so the handlers are taken only in "idle".                   *)
(***************************************************************************)
EXTENDS Naturals, Integers, Sequences, FiniteSets, Bags, TLC

VARIABLES word, guessedLetters, attempts, gameStatus, pc, alerts

vars == <<word, guessedLetters, attempts, gameStatus, pc, alerts>>

\* The four pieces of React state held by App.
core == <<word, guessedLetters, attempts, gameStatus>>

\* WORDS with one entry left out.
WORDS_OneLess ==
   <<
      <<"Z","A","G","U","E","I","R","O">>,
      <<"G","O","L","E","I","R","O">>,
      <<"A","T","A","Q","U","E">>,
      <<"L","A","T","E","R","A","L">>,
      <<"C","H","U","T","E","I","R","A">>,
      <<"T","R","A","V","E">>,
      <<"G","O","L">>,
      <<"P","E","N","A","L","T","I">>,
      <<"E","S","C","A","N","T","E","I","O">>,
      <<"J","U","I","Z">>,
      <<"C","A","M","I","S","A">>,
      <<"A","R","Q","U","I","B","A","N","C","A","D","A">>,
      <<"G","R","A","M","A","D","O">>,
      <<"B","A","N","D","E","R","A">>,
      <<"F","A","L","T","A">>,
      <<"E","S","C","U","D","O">>,
      <<"C","A","P","I","T","A","O">>,
      <<"C","O","N","V","O","C","A","C","A","O">>,
      <<"C","O","P","I","N","H","A">>,
      <<"M","A","R","A","C","A","N","A">>,
      <<"H","E","X","A","C","A","M","P","E","A","O">>,
      <<"T","O","R","C","E","D","O","R">>,
      <<"V","I","T","O","R","I","A">>,
      <<"E","M","P","A","T","E">>,
      <<"D","E","R","R","O","T","A">>,
      <<"C","A","R","R","I","N","H","O">>,
      <<"P","A","S","S","E","S">>,
      <<"T","I","T","E">>,
      <<"N","E","Y","M","A","R">>
   >>

WORDS ==
   << 
      <<"Z","A","G","U","E","I","R","O">>,
      <<"G","O","L","E","I","R","O">>,
      <<"A","T","A","Q","U","E">>,
      <<"L","A","T","E","R","A","L">>,
      <<"C","H","U","T","E","I","R","A">>,
      <<"T","R","A","V","E">>,
      <<"G","O","L">>,
      <<"P","E","N","A","L","T","I">>,
      <<"E","S","C","A","N","T","E","I","O">>,
      <<"J","U","I","Z">>,
      <<"C","A","M","I","S","A">>,
      <<"A","R","Q","U","I","B","A","N","C","A","D","A">>,
      <<"G","R","A","M","A","D","O">>,
      <<"B","A","N","D","E","R","A">>,
      <<"F","A","L","T","A">>,
      <<"E","S","C","U","D","O">>,
      <<"C","A","P","I","T","A","O">>,
      <<"C","O","N","V","O","C","A","C","A","O">>,
      <<"C","O","P","I","N","H","A">>,
      <<"M","A","R","A","C","A","N","A">>,
      <<"H","E","X","A","C","A","M","P","E","A","O">>,
      <<"T","O","R","C","E","D","O","R">>,
      <<"V","I","T","O","R","I","A">>,
      <<"E","M","P","A","T","E">>,
      <<"D","E","R","R","O","T","A">>,
      <<"C","A","R","R","I","N","H","O">>,
      <<"P","A","S","S","E","S">>,
      <<"T","I","T","E">>,
      <<"P","E","L","E_acute">>,
      <<"N","E","Y","M","A","R">>
   >>

MAX_ATTEMPTS == 6

ALPHABET ==
   << "A","B","C","D","E","F","G","H","I","J","K","L","M",
      "N","O","P","Q","R","S","T","U","V","W","X","Y","Z" >>

\* Number of keys on offer at a time that are neither letters of the word
\* nor guessed yet.  The code tests a letter only for membership in word and
\* in guessedLetters, so the letters outside the word are interchangeable
\* and offering the first unguessed ones in keyboard order reaches every
\* state up to a renaming of those letters.
MaxFreshWrongKeys == 1

\* The lowercase forms of the keys, in keyboard order.
LOWERCASE ==
   << "a","b","c","d","e","f","g","h","i","j","k","l","m",
      "n","o","p","q","r","s","t","u","v","w","x","y","z" >>

\* String.prototype.toLowerCase on a character.
toLowerCase(c) ==
   IF c = "E_acute" THEN "e_acute"
   ELSE IF \E i \in 1..Len(ALPHABET) : ALPHABET[i] = c
        THEN LOWERCASE[CHOOSE i \in 1..Len(ALPHABET) : ALPHABET[i] = c]
        ELSE c

\* String.prototype.toUpperCase on a character.
toUpperCase(c) ==
   IF c = "e_acute" THEN "E_acute"
   ELSE IF \E i \in 1..Len(LOWERCASE) : LOWERCASE[i] = c
        THEN ALPHABET[CHOOSE i \in 1..Len(LOWERCASE) : LOWERCASE[i] = c]
        ELSE c

Range(s) == { s[i] : i \in 1..Len(s) }

Min(a, b) == IF a <= b THEN a ELSE b

\* String.prototype.includes / Array.prototype.includes on a word.
WordIncludes(w, letter) == \E i \in 1..Len(w) : w[i] = letter

\* Array.prototype.includes on guessedLetters.
GuessedIncludes(g, letter) == BagIn(letter, g)

\* [...new Set(word.split(''))]
uniqueLetters(w) == Range(w)

\* hasWon with some() in the place of every().
hasWon_Some(w, g) == \E letter \in uniqueLetters(w) : GuessedIncludes(g, letter)

\* hasWon with the number of correct guesses compared with word.length
\* instead of the unique letters being tested.
hasWon_ByLength(w, g) ==
   Cardinality({ letter \in BagToSet(g) : WordIncludes(w, letter) }) = Len(w)

\* uniqueLetters.every(letter => guessedLetters.includes(letter))
hasWon(w, g) == \A letter \in uniqueLetters(w) : GuessedIncludes(g, letter)

\* The keys of the on-screen keyboard that are neither letters of w nor in
\* g, in keyboard order.
FreshWrongKeys(w, g) ==
   SelectSeq(ALPHABET, LAMBDA c : ~WordIncludes(w, c) /\ ~GuessedIncludes(g, c))

\* The keys the player presses in a round with word w and guesses g: the
\* keys that are letters of w, the keys pressed before, and the first
\* MaxFreshWrongKeys of the other keys.
Keys(w, g) ==
   LET fw == FreshWrongKeys(w, g)
   IN  (Range(w) \cap Range(ALPHABET))
          \cup (BagToSet(g) \cap Range(ALPHABET))
          \cup { fw[i] : i \in 1..Min(MaxFreshWrongKeys, Len(fw)) }

\* The characters that are neither letters of w nor in g: the lowercase
\* forms of the letters of w first, then the keys.
FreshOtherLetters(w, g) ==
   SelectSeq([i \in 1..Len(w) |-> toLowerCase(w[i])] \o ALPHABET,
             LAMBDA c : ~WordIncludes(w, c) /\ ~GuessedIncludes(g, c))

\* The letters passed to handleGuess when it is called with any character
\* and not only by the keyboard: the letters of w, the letters passed
\* before, and the first MaxFreshWrongKeys of the other characters.
AnyLetters(w, g) ==
   LET fo == FreshOtherLetters(w, g)
   IN  Range(w) \cup BagToSet(g)
          \cup { fo[i] : i \in 1..Min(MaxFreshWrongKeys, Len(fo)) }

\* The React state as a record, for the functions below.
State == [word |-> word, guessedLetters |-> guessedLetters,
          attempts |-> attempts, gameStatus |-> gameStatus]

\* startNewGame without setGameStatus('playing').
startNewGameState_KeepStatus(randomIndex) ==
   [word |-> WORDS[randomIndex + 1], guessedLetters |-> EmptyBag,
    attempts |-> 0, gameStatus |-> gameStatus]

\* startNewGame: the state after its four setters.
startNewGameState(randomIndex) ==
   [word |-> WORDS[randomIndex + 1], guessedLetters |-> EmptyBag,
    attempts |-> 0, gameStatus |-> "playing"]

\* handleGuess with the letter put in upper case first.
handleGuessState_UpperCase(s, letter) ==
   IF s.gameStatus # "playing"
         \/ GuessedIncludes(s.guessedLetters, toUpperCase(letter))
   THEN s
   ELSE [s EXCEPT !.guessedLetters = @ (+) SetToBag({toUpperCase(letter)}),
                  !.attempts = IF ~WordIncludes(s.word, toUpperCase(letter))
                               THEN @ + 1 ELSE @]

\* handleGuess without the test of word.includes(letter): every accepted
\* guess counts as a fault.
handleGuessState_AlwaysCount(s, letter) ==
   IF s.gameStatus # "playing" \/ GuessedIncludes(s.guessedLetters, letter)
   THEN s
   ELSE [s EXCEPT !.guessedLetters = @ (+) SetToBag({letter}),
                  !.attempts = @ + 1]

\* handleGuess with the test of word.includes(letter) inverted.
handleGuessState_Inverted(s, letter) ==
   IF s.gameStatus # "playing" \/ GuessedIncludes(s.guessedLetters, letter)
   THEN s
   ELSE [s EXCEPT !.guessedLetters = @ (+) SetToBag({letter}),
                  !.attempts = IF WordIncludes(s.word, letter)
                               THEN @ + 1 ELSE @]

\* handleGuess without the test of gameStatus.
handleGuessState_NoStatusGuard(s, letter) ==
   IF GuessedIncludes(s.guessedLetters, letter)
   THEN s
   ELSE [s EXCEPT !.guessedLetters = @ (+) SetToBag({letter}),
                  !.attempts = IF ~WordIncludes(s.word, letter)
                               THEN @ + 1 ELSE @]

\* handleGuess without the test of guessedLetters.includes(letter).
handleGuessState_NoIncludesGuard(s, letter) ==
   IF s.gameStatus # "playing"
   THEN s
   ELSE [s EXCEPT !.guessedLetters = @ (+) SetToBag({letter}),
                  !.attempts = IF ~WordIncludes(s.word, letter)
                               THEN @ + 1 ELSE @]

\* handleGuess(letter) called in a render with state s: the state after
\* the updates it queues.
handleGuessState(s, letter) ==
   IF s.gameStatus # "playing" \/ GuessedIncludes(s.guessedLetters, letter)
   THEN s
   ELSE [s EXCEPT !.guessedLetters = @ (+) SetToBag({letter}),
                  !.attempts = IF ~WordIncludes(s.word, letter)
                               THEN @ + 1 ELSE @]

\* The status effect without the losing branch.
statusEffectStatus_NoLoss(s) ==
   IF s.word = << >> \/ s.gameStatus # "playing"
   THEN s.gameStatus
   ELSE IF hasWon(s.word, s.guessedLetters) THEN "won"
   ELSE s.gameStatus

\* The status effect with attempts > MAX_ATTEMPTS as the losing test.
statusEffectStatus_Greater(s) ==
   IF s.word = << >> \/ s.gameStatus # "playing"
   THEN s.gameStatus
   ELSE IF hasWon(s.word, s.guessedLetters) THEN "won"
   ELSE IF s.attempts > MAX_ATTEMPTS THEN "lost"
   ELSE s.gameStatus

\* The status effect run in a render with state s: the gameStatus it sets.
statusEffectStatus(s) ==
   IF s.word = << >> \/ s.gameStatus # "playing"
   THEN s.gameStatus
   ELSE IF hasWon(s.word, s.guessedLetters) THEN "won"
   ELSE IF s.attempts >= MAX_ATTEMPTS THEN "lost"
   ELSE s.gameStatus

\* The status effect without the test of gameStatus before the alert.
statusEffectAlerts_NoStatusGuard(s) ==
   IF s.word = << >> THEN << >>
   ELSE IF hasWon(s.word, s.guessedLetters) THEN << >>
   ELSE IF s.attempts >= MAX_ATTEMPTS THEN << s.word >>
   ELSE << >>

\* The status effect run in a render with state s: the words it passes to
\* Alert.alert.
statusEffectAlerts(s) ==
   IF s.word = << >> \/ s.gameStatus # "playing" THEN << >>
   ELSE IF hasWon(s.word, s.guessedLetters) THEN << >>
   ELSE IF s.attempts >= MAX_ATTEMPTS THEN << s.word >>
   ELSE << >>

\* word.split('').map(letter => guessedLetters.includes(letter) ? letter : '_')
displayEntries(w, g) ==
   [i \in 1..Len(w) |-> IF GuessedIncludes(g, w[i]) THEN w[i] ELSE "_"]

\* Array.prototype.join: the characters of the parts with sep between them.
RECURSIVE Join(_, _)
Join(parts, sep) ==
   IF parts = << >> THEN << >>
   ELSE IF Len(parts) = 1 THEN << parts[1] >>
   ELSE << parts[1], sep >> \o Join(Tail(parts), sep)

\* displayWord joined with '' in the place of ' '.
displayWord_NoSeparator(w, g) == displayEntries(w, g)

\* displayWord (useMemo): the characters of the displayed string.
displayWord(w, g) == Join(displayEntries(w, g), " ")

\* guessedLetters.filter(letter => word.includes(letter)): the entries that
\* pass the test, each as often as it is stored.
correctLetters(w, g) ==
   [letter \in { c \in BagToSet(g) : WordIncludes(w, c) } |-> CopiesIn(letter, g)]

\* wrongLetters with the test of correctLetters.
wrongLetters_SameTest(w, g) ==
   [letter \in { c \in BagToSet(g) : WordIncludes(w, c) } |-> CopiesIn(letter, g)]

\* guessedLetters.filter(letter => !word.includes(letter))
wrongLetters(w, g) ==
   [letter \in { c \in BagToSet(g) : ~WordIncludes(w, c) } |-> CopiesIn(letter, g)]

Init ==
   /\ word = << >>
   /\ guessedLetters = EmptyBag
   /\ attempts = 0
   /\ gameStatus = "playing"
   /\ pc = "mount"
   /\ alerts = << >>

\* The mount effects: useEffect(() => startNewGame(), [startNewGame]) sets
\* the state of the first round; the status effect of the first render sees
\* word = '' and returns.
Mount ==
   /\ pc = "mount"
   /\ \E randomIndex \in 0..(Len(WORDS) - 1) :
         LET s == startNewGameState(randomIndex)
         IN  /\ word' = s.word
             /\ guessedLetters' = s.guessedLetters
             /\ attempts' = s.attempts
             /\ gameStatus' = s.gameStatus
   /\ alerts' = << >>
   /\ pc' = "effect"

\* The restart button: onPress={startNewGame}.  alerts is the log of the
\* Alert.alert calls of the current round, so a new round empties it.
StartNewGame ==
   /\ pc = "idle"
   /\ \E randomIndex \in 0..(Len(WORDS) - 1) :
         LET s == startNewGameState(randomIndex)
         IN  /\ word' = s.word
             /\ guessedLetters' = s.guessedLetters
             /\ attempts' = s.attempts
             /\ gameStatus' = s.gameStatus
   /\ alerts' = << >>
   /\ pc' = "effect"

\* handleGuess(letter).  A call that returns early queues no update, so
\* there is no render and no effect run.
HandleGuess(letter) ==
   /\ pc = "idle"
   /\ LET s == handleGuessState(State, letter)
      IN  /\ guessedLetters' = s.guessedLetters
          /\ attempts' = s.attempts
          /\ pc' = IF s = State THEN "idle" ELSE "effect"
   /\ UNCHANGED <<word, gameStatus, alerts>>

\* The status effect, run after a commit that changed one of its
\* dependencies [guessedLetters, attempts, word, gameStatus].  When it sets
\* gameStatus the component renders again and the effect runs once more.
StatusEffect ==
   /\ pc = "effect"
   /\ gameStatus' = statusEffectStatus(State)
   /\ alerts' = alerts \o statusEffectAlerts(State)
   /\ pc' = IF statusEffectStatus(State) # gameStatus THEN "effect" ELSE "idle"
   /\ UNCHANGED <<word, guessedLetters, attempts>>

Next ==
   \/ Mount
   \/ StartNewGame
   \/ \E letter \in Keys(word, guessedLetters) : HandleGuess(letter)
   \/ StatusEffect

Spec == Init /\ [][Next]_vars

\* Keyboard: isDisabled of the key of letter.
isDisabled(g, status, letter) ==
   LET isGuessed == GuessedIncludes(g, letter)
   IN  isGuessed \/ status # "playing"

\* A press of an on-screen key: onPress={() => handleGuess(letter)} of a
\* TouchableOpacity that is not disabled.
PressKey(letter) ==
   /\ \E i \in 1..Len(ALPHABET) : ALPHABET[i] = letter
   /\ ~isDisabled(guessedLetters, gameStatus, letter)
   /\ HandleGuess(letter)

\* The component driven through its two controls, the keyboard and the
\* restart button.
NextKeyboard ==
   \/ Mount
   \/ StartNewGame
   \/ \E letter \in Keys(word, guessedLetters) : PressKey(letter)
   \/ StatusEffect

SpecKeyboard == Init /\ [][NextKeyboard]_vars

\* A round played to its end: the player presses enabled keys and never
\* the restart button.  The mount effect and the status effect run because
\* React runs the effects of every committed render; that the player goes on
\* pressing a key while one is enabled is the premise of the property
\* checked under this specification.
NextPlay ==
   \/ Mount
   \/ \E letter \in Keys(word, guessedLetters) : PressKey(letter)
   \/ StatusEffect

SpecPlay ==
   /\ Init
   /\ [][NextPlay]_vars
   /\ WF_vars(Mount)
   /\ WF_vars(StatusEffect)
   /\ WF_vars(\E letter \in Keys(word, guessedLetters) : PressKey(letter))

\* The component with handleGuess called with any character.
NextAnyCase ==
   \/ Mount
   \/ StartNewGame
   \/ \E letter \in AnyLetters(word, guessedLetters) : HandleGuess(letter)
   \/ StatusEffect

SpecAnyCase == Init /\ [][NextAnyCase]_vars

TypeOK ==
   /\ word \in {<< >>} \cup Range(WORDS)
   /\ attempts \in Nat
   /\ gameStatus \in {"playing", "won", "lost"}
   /\ pc \in {"mount", "effect", "idle"}

----------------------------------------------------------------------------
(* Helpers of the properties. *)

\* Every letter of w occurs in g (stated on positions, not on the set of
\* unique letters).
AllLettersGuessed(w, g) == \A i \in 1..Len(w) : CopiesIn(w[i], g) >= 1

\* The state once handleGuess(letter) has been called in state s and the
\* status effect has run for the render it caused.
AfterGuess(s, letter) ==
   LET t == handleGuessState(s, letter)
   IN  [t EXCEPT !.gameStatus = statusEffectStatus(t)]

\* What every step of handleGuess satisfies, whatever the letter; the
\* properties test it before they look for the letter.
GuessStep == pc = "idle" /\ word' = word /\ gameStatus' = gameStatus

\* The status effect is pending on a state it has not looked at yet.
EffectPending == pc = "effect" /\ gameStatus = "playing"

----------------------------------------------------------------------------
\* C1: once gameStatus is won or lost, a handleGuess call with any letter
\* leaves word, guessedLetters, attempts and gameStatus unchanged, and the
\* only step that changes any of them is startNewGame.
C1_TerminalNoOp ==
   [][ (gameStatus = "won" \/ gameStatus = "lost") =>
         ( /\ GuessStep =>
                 \A letter \in Keys(word, guessedLetters) :
                    HandleGuess(letter) => UNCHANGED core
           /\ (core' # core => StartNewGame) ) ]_vars

\* A lost round at rest in which a key is still unguessed, so that a call of
\* handleGuess has something it could wrongly accept.
C1_Witness ==
   /\ pc = "idle"
   /\ gameStatus = "lost"
   /\ \E letter \in Keys(word, guessedLetters) : ~GuessedIncludes(guessedLetters, letter)

\* C2: attempts never exceeds MAX_ATTEMPTS; when it has reached
\* MAX_ATTEMPTS the status effect of that render sets gameStatus to lost,
\* and gameStatus stays lost until startNewGame.
C2_AttemptsBounded ==
   /\ [](attempts <= MAX_ATTEMPTS)
   /\ [](attempts = MAX_ATTEMPTS => gameStatus = "lost" \/ EffectPending)
   /\ [][EffectPending /\ attempts = MAX_ATTEMPTS => gameStatus' = "lost"]_vars
   /\ [][gameStatus = "lost" /\ gameStatus' # "lost" => StartNewGame]_vars

\* A round lost with six wrong guesses.
C2_Witness == pc = "idle" /\ gameStatus = "lost" /\ attempts = MAX_ATTEMPTS

\* C3: when every letter of word has been accepted (which needs attempts
\* below MAX_ATTEMPTS at each of those guesses), the status effect of the
\* render of the last of them sets gameStatus to won, whatever the number of
\* wrong guesses before.
C3_AllLettersWin ==
   /\ [](word # << >> /\ AllLettersGuessed(word, guessedLetters)
            => gameStatus = "won" \/ EffectPending)
   /\ [][EffectPending /\ word # << >>
            /\ AllLettersGuessed(word, guessedLetters)
            => gameStatus' = "won"]_vars

\* A round won after five wrong guesses.
C3_Witness ==
   /\ pc = "idle"
   /\ gameStatus = "won"
   /\ attempts = MAX_ATTEMPTS - 1
   /\ AllLettersGuessed(word, guessedLetters)

\* C4: handleGuess is idempotent per letter: calling it twice in a row with
\* the same letter gives the state that calling it once gives; a letter
\* already in guessedLetters is not stored again and does not count again.
C4_Idempotent ==
   pc = "idle" =>
      \A letter \in Keys(word, guessedLetters) :
         LET once == AfterGuess(State, letter)
         IN  /\ AfterGuess(once, letter) = once
             /\ CopiesIn(letter, once.guessedLetters) <= 1
             /\ GuessedIncludes(guessedLetters, letter)
                   => handleGuessState(State, letter) = State

\* A round in progress in which a wrong letter has been guessed: a second
\* call with that letter is the case of the claim.
C4_Witness ==
   /\ pc = "idle"
   /\ gameStatus = "playing"
   /\ \E letter \in Keys(word, guessedLetters) :
         /\ GuessedIncludes(guessedLetters, letter)
         /\ ~WordIncludes(word, letter)
         /\ attempts >= 1

\* C5: startNewGame can be taken in every state at rest (playing, won or
\* lost); right after it word is one of WORDS, guessedLetters is empty,
\* attempts is 0 and gameStatus is playing, and the status effect of that
\* render leaves it so.
C5_StartNewGame ==
   /\ [](pc = "idle" => ENABLED StartNewGame)
   /\ [][StartNewGame =>
            ( /\ \E i \in 1..Len(WORDS) : word' = WORDS[i]
              /\ BagToSet(guessedLetters') = {}
              /\ attempts' = 0
              /\ gameStatus' = "playing" )]_vars
   /\ [][pc = "effect" /\ BagToSet(guessedLetters) = {} =>
            gameStatus' = "playing" /\ alerts' = << >>]_vars

\* The render right after startNewGame.
C5_Witness ==
   /\ pc = "effect"
   /\ word # << >>
   /\ BagToSet(guessedLetters) = {}
   /\ attempts = 0
   /\ gameStatus = "playing"

\* The state a round is in by the rule of the data model: won when every
\* distinct letter of w is in g, otherwise lost when a has reached
\* MAX_ATTEMPTS, otherwise playing.
DerivedPhase(w, g, a) ==
   IF \A i \in 1..Len(w) : CopiesIn(w[i], g) >= 1 THEN "won"
   ELSE IF a >= MAX_ATTEMPTS THEN "lost"
   ELSE "playing"

\* C6 (as stated): in every reachable state the stored gameStatus equals
\* the phase derived from (word, guessedLetters, attempts).
C6_Original == gameStatus = DerivedPhase(word, guessedLetters, attempts)

\* C6 (amended): gameStatus is stored state that the status effect brings
\* up to date after each render.  Whenever no effect is pending it equals
\* the derived phase; while the effect is pending it is either the derived
\* phase or still 'playing'.
C6_DerivedAtRest ==
   /\ pc = "idle" => gameStatus = DerivedPhase(word, guessedLetters, attempts)
   /\ pc = "effect" =>
         gameStatus \in {"playing", DerivedPhase(word, guessedLetters, attempts)}

\* A lost round at rest, where the second branch of the rule decides.
C6_Witness ==
   /\ pc = "idle"
   /\ DerivedPhase(word, guessedLetters, attempts) = "lost"
   /\ BagCardinality(guessedLetters) > MAX_ATTEMPTS

\* C7: an accepted handleGuess(letter) (gameStatus playing, letter not in
\* guessedLetters) adds exactly that letter to guessedLetters, adds one to
\* attempts when the letter does not occur in word and leaves attempts
\* unchanged when it does, and does not change word.
C7_AcceptedGuess ==
   [][ GuessStep => \A letter \in Keys(word, guessedLetters) :
         (gameStatus = "playing" /\ CopiesIn(letter, guessedLetters) = 0
             /\ HandleGuess(letter))
         => ( /\ BagToSet(guessedLetters') = BagToSet(guessedLetters) \cup {letter}
              /\ \A c \in BagToSet(guessedLetters') :
                    CopiesIn(c, guessedLetters') =
                       CopiesIn(c, guessedLetters) + (IF c = letter THEN 1 ELSE 0)
              /\ attempts' = attempts +
                    (IF \E i \in 1..Len(word) : word[i] = letter THEN 0 ELSE 1)
              /\ word' = word ) ]_vars

\* The render after two accepted guesses, one in the word and one not.
C7_Witness ==
   /\ pc = "effect"
   /\ gameStatus = "playing"
   /\ attempts = 1
   /\ BagCardinality(guessedLetters) = 2

\* C8 (as stated): the handleGuess call that brings attempts to
\* MAX_ATTEMPTS itself issues the notification with the word, and there is
\* one notification in a lost round and none otherwise.
C8_Original ==
   /\ [][ GuessStep => \A letter \in Keys(word, guessedLetters) :
            (HandleGuess(letter) /\ attempts < MAX_ATTEMPTS
                /\ attempts' >= MAX_ATTEMPTS)
            => alerts' = << word >> ]_vars
   /\ [](gameStatus = "lost" => alerts = << word >>)
   /\ [](gameStatus = "won" => alerts = << >>)

\* C8 (amended): the notification with the word is issued by the status
\* effect, in the step that sets gameStatus from playing to lost, which is
\* a step after the handleGuess call that caused it; handleGuess issues
\* none; a lost round has exactly one notification and a round that is
\* playing or won has none.
C8_AlertByEffect ==
   /\ [](gameStatus = "lost" => alerts = << word >>)
   /\ [](gameStatus # "lost" => alerts = << >>)
   /\ [][ GuessStep => \A letter \in Keys(word, guessedLetters) :
            HandleGuess(letter) => alerts' = alerts ]_vars
   /\ [][ (alerts' # alerts /\ alerts' # << >>)
            => (StatusEffect /\ gameStatus = "playing"
                   /\ gameStatus' = "lost" /\ alerts' = << word >>) ]_vars

\* The render in which the effect has just set lost and alerted.
C8_Witness ==
   /\ pc = "effect"
   /\ gameStatus = "lost"
   /\ Len(alerts) = 1
   /\ alerts[1] = word

\* C9: displayWord has one entry per position of word, separated by single
\* spaces; entry i is word[i] when word[i] is in guessedLetters and '_'
\* otherwise; it has no '_' exactly when every letter of word is guessed.
C9_DisplayWord ==
   LET d == displayWord(word, guessedLetters)
       n == Len(word)
   IN  /\ Len(d) = IF n = 0 THEN 0 ELSE 2 * n - 1
       /\ \A i \in 1..n :
             d[2 * i - 1] =
                IF CopiesIn(word[i], guessedLetters) >= 1 THEN word[i] ELSE "_"
       /\ \A i \in 1..(n - 1) : d[2 * i] = " "
       /\ (\A k \in 1..Len(d) : d[k] # "_")
             <=> AllLettersGuessed(word, guessedLetters)

\* A display with a revealed and a masked position.
C9_Witness ==
   LET d == displayWord(word, guessedLetters)
   IN  /\ \E k \in 1..Len(d) : d[k] = "_"
       /\ \E k \in 1..Len(d) : d[k] \notin {"_", " "}
       /\ attempts >= 1

\* letter is the lowercase form of a letter of w.
IsLowerOfWord(w, letter) ==
   \E i \in 1..Len(w) : letter = toLowerCase(w[i]) /\ letter # w[i]

\* C10 (as stated): a guess is case-normalized before it is compared, so an
\* accepted lowercase form of a letter of word leaves attempts unchanged,
\* and once all letters of word have been submitted in lowercase the round
\* is won.
C10_Original ==
   /\ [][ GuessStep => \A letter \in AnyLetters(word, guessedLetters) :
            (IsLowerOfWord(word, letter) /\ HandleGuess(letter)
                /\ guessedLetters' # guessedLetters)
            => attempts' = attempts ]_vars
   /\ []((word # << >> /\ pc = "idle"
            /\ \A i \in 1..Len(word) :
                  CopiesIn(toLowerCase(word[i]), guessedLetters) >= 1)
          => gameStatus = "won")

\* C10 (amended): handleGuess compares the letter as passed, without case
\* normalization.  An accepted letter is stored as passed and leaves
\* attempts unchanged exactly when that very character occurs in word; a
\* lowercase form of a letter of word adds one to attempts and reveals
\* nothing; the round is won once the letters are guessed as they occur in
\* word.
C10_ExactComparison ==
   /\ [][ GuessStep => \A letter \in AnyLetters(word, guessedLetters) :
            (HandleGuess(letter) /\ guessedLetters' # guessedLetters)
            => ( /\ CopiesIn(letter, guessedLetters') = 1
                 /\ (attempts' = attempts)
                       <=> (\E i \in 1..Len(word) : word[i] = letter)
                 /\ IsLowerOfWord(word, letter) =>
                       ( /\ attempts' = attempts + 1
                         /\ CopiesIn(toUpperCase(letter), guessedLetters')
                               = CopiesIn(toUpperCase(letter), guessedLetters) ) ) ]_vars
   /\ []((word # << >> /\ pc = "idle"
            /\ AllLettersGuessed(word, guessedLetters))
          => gameStatus = "won")
   /\ []((pc = "idle" /\ gameStatus = "won")
          => AllLettersGuessed(word, guessedLetters))

\* The render after the lowercase form of a letter of word was accepted
\* while its uppercase form is still unguessed.
C10_Witness ==
   /\ pc = "effect"
   /\ attempts >= 1
   /\ \E i \in 1..Len(word) :
         /\ CopiesIn(toLowerCase(word[i]), guessedLetters) = 1
         /\ CopiesIn(word[i], guessedLetters) = 0

\* C11 (as stated): the vocabulary is a fixed list of exactly 29 words from
\* which every round's word is drawn, and a round is lost at exactly
\* MAX_ATTEMPTS = 6 wrong guesses.
C11_Original ==
   /\ Len(WORDS) = 29
   /\ Cardinality(Range(WORDS)) = 29
   /\ MAX_ATTEMPTS = 6
   /\ word # << >> => \E i \in 1..29 : word = WORDS[i]
   /\ gameStatus = "lost" => attempts = 6

\* C11 (amended): the vocabulary is a fixed list of exactly 30 different
\* words from which every round's word is drawn, and a round is lost at
\* exactly MAX_ATTEMPTS = 6 wrong guesses; no operation writes either.
C11_FixedVocabulary ==
   /\ Len(WORDS) = 30
   /\ Cardinality(Range(WORDS)) = 30
   /\ MAX_ATTEMPTS = 6
   /\ word # << >> => \E i \in 1..30 : word = WORDS[i]
   /\ gameStatus = "lost" => attempts = 6

\* A lost round whose word is the thirtieth entry of WORDS.
C11_Witness ==
   /\ Len(WORDS) >= 30
   /\ word = WORDS[30]
   /\ gameStatus = "lost"
   /\ attempts = 6

\* C12: for every word of WORDS a sequence of key presses wins the round.
\* Pressing a key that is not a letter of the word never helps, and every
\* winning sequence presses the keys that are letters of the word, so a win
\* is reachable exactly when pressing all of those keys with fewer than
\* MAX_ATTEMPTS wrong guesses wins: a round at rest in which every key that
\* is a letter of the word has been pressed, with attempts below
\* MAX_ATTEMPTS, is won.
C12_WinReachable ==
   ( /\ pc = "idle"
     /\ word # << >>
     /\ attempts < MAX_ATTEMPTS
     /\ \A i \in 1..Len(ALPHABET) :
           WordIncludes(word, ALPHABET[i])
              => GuessedIncludes(guessedLetters, ALPHABET[i]) )
   => gameStatus = "won"

\* C13: attempts is the number of entries of guessedLetters that do not
\* occur in word (the length of wrongLetters); no letter is stored twice;
\* correctLetters and wrongLetters are disjoint and together hold exactly
\* the entries of guessedLetters.
C13_AttemptsCountWrong ==
   LET correct == correctLetters(word, guessedLetters)
       wrong == wrongLetters(word, guessedLetters)
   IN  /\ attempts = BagCardinality(wrong)
       /\ attempts = Cardinality({ c \in BagToSet(guessedLetters) :
                                      \A i \in 1..Len(word) : word[i] # c })
       /\ \A c \in BagToSet(guessedLetters) : CopiesIn(c, guessedLetters) = 1
       /\ BagToSet(correct) \cap BagToSet(wrong) = {}
       /\ BagToSet(correct) \cup BagToSet(wrong) = BagToSet(guessedLetters)
       /\ BagCardinality(correct) + BagCardinality(wrong)
             = BagCardinality(guessedLetters)

\* A round with two correct and two wrong guesses.
C13_Witness ==
   /\ BagCardinality(correctLetters(word, guessedLetters)) = 2
   /\ BagCardinality(wrongLetters(word, guessedLetters)) = 2
   /\ attempts = 2

\* The number of accepted guesses of the round.
AcceptedGuesses == BagCardinality(guessedLetters)

\* The number d of distinct letters of the word.
DistinctLetters == Cardinality(Range(word))

\* C14: a round in which the player keeps pressing enabled keys and never
\* restarts ends: gameStatus eventually is won or lost, and no round has
\* more than d + 5 accepted guesses, d the number of distinct letters of
\* word; a round at rest with d + 5 accepted guesses is over.
C14_RoundTerminates ==
   /\ <>(gameStatus = "won" \/ gameStatus = "lost")
   /\ [](AcceptedGuesses <= DistinctLetters + 5)
   /\ []((pc = "idle" /\ AcceptedGuesses = DistinctLetters + 5)
            => gameStatus # "playing")

\* A round that ended with its (d + 5)-th accepted guess.
C14_Witness ==
   /\ pc = "idle"
   /\ gameStatus = "lost"
   /\ AcceptedGuesses = DistinctLetters + 5

\* C15: the winning and the losing condition are never both true, so the
\* order of the two tests of the status effect decides nothing: a won round
\* has at most 5 attempts, a lost round has exactly 6 and a letter of word
\* that is not guessed.
C15_WinLoseExclusive ==
   /\ ~(word # << >> /\ AllLettersGuessed(word, guessedLetters)
           /\ attempts >= MAX_ATTEMPTS)
   /\ gameStatus = "won" => attempts <= 5
   /\ gameStatus = "lost" =>
         ( /\ attempts = 6
           /\ \E i \in 1..Len(word) : CopiesIn(word[i], guessedLetters) = 0 )

\* The status effect about to run on a word completed after five wrong
\* guesses.
C15_Witness ==
   /\ pc = "effect"
   /\ gameStatus = "playing"
   /\ AllLettersGuessed(word, guessedLetters)
   /\ attempts = MAX_ATTEMPTS - 1
====
